---- MODULE Spec2Model ----
(***************************************************************************)
(* Model of framework.py of bits_to_qubits: the experiment pipeline        *)
(* (qubitLatticeExperiment, phaseExperiment, frqiExperiment), the          *)
(* asynchronous submit/decode pair frqiExperimentIBMQ, and the __main__    *)
(* driver that loops over the inputs, catches per-trial failures and       *)
(* pickles the records.                                                    *)
(*                                                                         *)
(* One process of the script runs at a time (mode).  Inside a process one  *)
(* function call is active at a time (call); call.stage is the stage the   *)
(* call executes next.  The remote jobs live outside the process (status). *)
(***************************************************************************)
EXTENDS Integers, Sequences, FiniteSets, TLC

VARIABLES
    mode,       \* branch of __main__ the running process is in, "none" = no process
    scheme,     \* "ql" | "ph" | "frqi": which experiment function the batch calls
    todo,       \* inputs the for loop of __main__ has still to visit
    exp,        \* the experiment record (exp / exp_dict), in memory
    call,       \* the active function call and its position
    errLog,     \* inputs for which __main__ logged logger.error
    status,     \* remote service: job handle -> "none" | "pending" | "ready" | "failed"
    nextJob,    \* next job handle the remote service hands out
    decodes,    \* decode invocations made on the record in memory
    failures,   \* exceptions raised so far in the running batch
    disk,       \* durable storage: the files the script writes
    app,        \* one application of prepareInput or of the accuracy expression
    distArg,    \* dist of __main__ in the running process (sys.argv[3], default 'reversing')
    ticket      \* history: job handle -> size and distribution of the input encoded for it

vars == <<mode, scheme, todo, exp, call, errLog, status, nextJob, decodes, failures, disk,
          app, distArg, ticket>>

-----------------------------------------------------------------------------
(* Bounds of the model *)

\* submit attempts made over all processes
MaxJobs == 1
\* decode invocations on one in-memory record
MaxDecodes == 2
\* exceptions raised by the external collaborators within one batch
MaxFailures == 1

-----------------------------------------------------------------------------
(* Program constants *)

\* shots = 50000
Shots == 50000

\* square_inputs(5) = [x**2 for x in range(2, 6)]
square_inputs == <<4, 9, 16, 25>>
\* power_inputs(4) = [(2**x)**2 for x in range(1, 5)]
power_inputs == <<4, 16, 64, 256>>

\* custom_ibmq_experiment_dict["jobs"]: the three hardcoded job ids
\* "crvmvfndbt40008jvh50", "crvmvqyx484g008fa9pg", "crvmwxvy7jt000807jgg",
\* written 1, 2, 3; handles of jobs submitted by this program follow them.
HardcodedJobs == <<1, 2, 3>>
HardcodedSizes == <<4, 16, 64>>
FirstHandle == Len(HardcodedJobs) + 1
Handles == 1 .. (Len(HardcodedJobs) + MaxJobs)

Schemes == {"ql", "ph", "frqi"}

RuntimeKeys == {"Encoder", "Transpile", "Simulate", "Decoder",
                "Noisy Encoder", "Noisy Transpile", "Noisy Simulate", "Noisy Decoder"}
PureRuntimeKeys == {"Encoder", "Transpile", "Simulate", "Decoder"}
NoisyRuntimeKeys == RuntimeKeys \ PureRuntimeKeys
DepthKeys == {"Encoder", "Invert + Measurement", "Transpile", "Simulate"}

-----------------------------------------------------------------------------
(* Helpers *)

Range(s) == {s[i] : i \in 1 .. Len(s)}

Last(s) == s[Len(s)]

\* number of entries of the list s recorded for trial t
Count(s, t) == Cardinality({i \in 1 .. Len(s) : s[i].t = t})

\* the trials of the entries of s, in order
Tags(s) == [i \in 1 .. Len(s) |-> s[i].t]

IsPrefix(s, u) == Len(s) <= Len(u) /\ \A i \in 1 .. Len(s) : s[i] = u[i]

\* One value appended to a list of the record: the trial it belongs to and
\* what the code computed it from.
Entry(t, v) == [t |-> t, v |-> v]

-----------------------------------------------------------------------------
(* The record *)

\* btq_plotter.get_dict("exp") / get_dict("ibmq") / custom_ibmq_experiment_dict:
\* every list the code appends to, empty.
get_dict(name) ==
    [name |-> name,
     size |-> <<>>, shots |-> <<>>,
     runtimes |-> [k \in RuntimeKeys |-> <<>>],
     depths |-> [k \in DepthKeys |-> <<>>],
     widths |-> <<>>, count_ops |-> <<>>,
     data_points |-> <<>>, accuracy |-> <<>>,
     noisy_data_points |-> <<>>, noisy_accuracy |-> <<>>,
     supermarq_metrics |-> <<>>,
     jobs |-> <<>>, results |-> <<>>, stateVectors |-> <<>>]

custom_ibmq_experiment_dict ==
    [get_dict("custom") EXCEPT !.size = HardcodedSizes, !.jobs = HardcodedJobs]

AppendRt(r, key, e) == [r EXCEPT !.runtimes[key] = Append(@, e)]
AppendDp(r, key, e) == [r EXCEPT !.depths[key] = Append(@, e)]

-----------------------------------------------------------------------------
(* The call frame *)

\* no transpile(...) call made yet / no backend run(...) made yet
NoCompile == [backend |-> "none", seed_transpiler |-> "none"]
NoRun == [backend |-> "none", returns |-> "none"]

NoCall == [fn |-> "none", n |-> 0, noisy |-> FALSE, stage |-> "none", idx |-> 0,
           tag |-> 0, trace |-> <<>>, avail |-> {}, polled |-> {},
           run_simulation |-> FALSE, compiled |-> NoCompile, executed |-> NoRun]

\* mutant: the decoder runs before the execution
StageOrder_DecodeFirst == <<"input", "encode", "invert", "transpile", "decode", "simulate",
                            "datapoints", "accuracy">>

\* the stages of one synchronous trial, in program order
StageOrder == <<"input", "encode", "invert", "transpile", "simulate", "decode",
                "datapoints", "accuracy">>

\* the stages of a call with run_simulation=False: the else branch stores
\* the compiled circuit
CompileOnlyOrder == <<"input", "encode", "invert", "transpile", "store">>

\* the body a call runs through
BodyOrder(run_simulation) == IF run_simulation THEN StageOrder ELSE CompileOnlyOrder

\* the stages of the submit phase of frqiExperimentIBMQ, in program order
SubmitOrder == <<"input", "encode", "invert", "transpile", "simulate">>

IndexOf(seq, s) == CHOOSE i \in 1 .. Len(seq) : seq[i] = s

\* the stage that follows stage s in the body of the function
NextStage(order, s) ==
    IF IndexOf(order, s) = Len(order) THEN "return" ELSE order[IndexOf(order, s) + 1]

\* stages that call an external collaborator (encoder, compiler, backend, decoder)
RaisingStages == {"encode", "invert", "transpile", "simulate", "decode"}

-----------------------------------------------------------------------------
(* Stage effects of the synchronous experiment functions                     *)
(* qubitLatticeExperiment ("ql"), phaseExperiment ("ph"), frqiExperiment     *)
(* ("frqi"): what each stage appends to the record r for trial n.            *)

\* what runtimes["Encoder"] receives: frqiExperiment appends end_time, the
\* other two append time.process_time()
EncoderRuntimeValue(sch) == IF sch = "frqi" THEN "elapsed" ELSE "clock"

EncodeEffect(r, sch, n, noisy) ==
    IF noisy
    THEN AppendRt(r, "Noisy Encoder", Entry(n, "elapsed"))
    ELSE [AppendDp(AppendRt(r, "Encoder", Entry(n, EncoderRuntimeValue(sch))),
                   "Encoder", Entry(n, "circuit"))
            EXCEPT !.widths = Append(@, Entry(n, "circuit"))]

\* mutant: the depth is appended without looking at noisy
InvertEffect_Unguarded(r, sch, n, noisy) ==
    AppendDp(r, "Invert + Measurement", Entry(n, "circuit"))

InvertEffect(r, sch, n, noisy) ==
    IF ~noisy
    THEN AppendDp(r, "Invert + Measurement", Entry(n, "circuit"))
    ELSE r

TranspileEffect(r, sch, n, noisy) ==
    IF noisy
    THEN AppendRt(r, "Noisy Transpile", Entry(n, "elapsed"))
    ELSE [AppendDp(AppendRt(r, "Transpile", Entry(n, "elapsed")),
                   "Transpile", Entry(n, "tcircuit"))
            EXCEPT !.count_ops = Append(@, Entry(n, "tcircuit"))]

SimulateEffect(r, sch, n, noisy) ==
    IF noisy
    THEN AppendRt(r, "Noisy Simulate", Entry(n, "time_taken"))
    ELSE AppendDp(AppendRt(r, "Simulate", Entry(n, "time_taken")),
                  "Simulate", Entry(n, "circuit"))

DecodeEffect(r, sch, n, noisy) ==
    IF noisy
    THEN AppendRt(r, "Noisy Decoder", Entry(n, "elapsed"))
    ELSE AppendRt(r, "Decoder", Entry(n, "elapsed"))

DataPointsEffect(r, sch, n, noisy) ==
    IF noisy
    THEN [r EXCEPT !.noisy_data_points = Append(@, Entry(n, "pair"))]
    ELSE [r EXCEPT !.data_points = Append(@, Entry(n, "pair"))]

AccuracyEffect(r, sch, n, noisy) ==
    IF noisy
    THEN [r EXCEPT !.noisy_accuracy = Append(@, Entry(n, "score"))]
    ELSE [r EXCEPT !.accuracy = Append(@, Entry(n, "score"))]

StageEffect(r, sch, n, noisy, stage) ==
    CASE stage = "input"      -> r
      [] stage = "encode"     -> EncodeEffect(r, sch, n, noisy)
      [] stage = "invert"     -> InvertEffect(r, sch, n, noisy)
      [] stage = "transpile"  -> TranspileEffect(r, sch, n, noisy)
      [] stage = "simulate"   -> SimulateEffect(r, sch, n, noisy)
      [] stage = "decode"     -> DecodeEffect(r, sch, n, noisy)
      [] stage = "datapoints" -> DataPointsEffect(r, sch, n, noisy)
      [] stage = "accuracy"   -> AccuracyEffect(r, sch, n, noisy)
      [] stage = "store"      -> r

\* transpileCircuit(qc, noisy, backend): the backend handed to transpile and
\* the seed_transpiler argument ("None": the argument is not passed)
transpileCircuit(noisy, backend) ==
    IF backend = "simulator"
    THEN IF noisy
         THEN [backend |-> "pure_backend", seed_transpiler |-> "None"]
         ELSE [backend |-> "noisy_backend", seed_transpiler |-> "None"]
    ELSE [backend |-> "ibmq_backend", seed_transpiler |-> "0"]

\* simulate(tqc, shots, noisy, verbose, backend): the backend whose run is
\* called and what the function comes to; result is assigned in the else
\* branch only, so with noisy the use of result raises
simulate(noisy, backend) ==
    IF backend = "simulator"
    THEN IF noisy
         THEN [backend |-> "noisy_backend", returns |-> "UnboundLocalError"]
         ELSE [backend |-> "pure_backend", returns |-> "result"]
    ELSE [backend |-> "ibmq_backend", returns |-> "job"]

\* entry of an experiment function: the frame of a fresh call
ExperimentCall(n, noisy) ==
    [NoCall EXCEPT !.fn = "experiment", !.n = n, !.noisy = noisy,
                   !.stage = StageOrder[1], !.tag = n, !.run_simulation = TRUE]

\* the frame of a call that leaves run_simulation at its default False
CompileOnlyCall(n, noisy) ==
    [NoCall EXCEPT !.fn = "experiment", !.n = n, !.noisy = noisy,
                   !.stage = CompileOnlyOrder[1], !.tag = n]

-----------------------------------------------------------------------------
(* Durable storage *)

NoFile == [present |-> FALSE, data |-> <<>>]
File(d) == [present |-> TRUE, data |-> d]

\* the job handles held by the ledger file exp_ibmq_<date>.pkl
LedgerHandles ==
    UNION {Range(disk.ibmq.data[i].jobs) : i \in 1 .. Len(disk.ibmq.data)}

-----------------------------------------------------------------------------
(* prepareInput                                                              *)

\* largest side of the square input prepareInput is applied to
MaxSide == 4
\* the sizes n the function is applied to, squares and non-squares
Sizes == 1 .. (MaxSide * MaxSide)

\* np.pi, counted in units of pi/510, so that np.interp over (0, 255) into
\* (0, np.pi) and into (0, np.pi/2) lands on whole units
pi == 510
\* input_range=(0, 255), the value every caller passes
input_range == <<0, 255>>
\* angle_range: (0, np.pi) in qubitLatticeExperiment and phaseExperiment,
\* (0, np.pi/2) in frqiExperiment and frqiExperimentIBMQ
AngleRanges == {<<0, pi>>, <<0, pi \div 2>>}
\* values of dist: the three names the code tests for, two spellings in
\* other case, and two names it does not know
DistNames == {"linear", "random", "reversing", "Reversing", "RANDOM", "gaussian", "sorted"}

Min(a, b) == IF a <= b THEN a ELSE b
Max(a, b) == IF a >= b THEN a ELSE b
Abs(a) == IF a >= 0 THEN a ELSE -a

\* int(math.sqrt(n))
isqrt(n) == CHOOSE s \in 0 .. n : s * s <= n /\ n < (s + 1) * (s + 1)

\* dist.lower()
lower(d) ==
    CASE d = "Reversing" -> "reversing"
      [] d = "RANDOM"    -> "random"
      [] OTHER           -> d

\* np.linspace(start=0, stop=255, num=n, dtype=int): n evenly spaced values
\* from 0 to 255, each cut to an integer (one value: the start).  Python
\* index k is position k + 1 here.  For n < 106 the float products k * step
\* cut to the same integers as the exact quotients.
linspace(n) == [k \in 1 .. n |-> IF n = 1 THEN 0 ELSE (255 * (k - 1)) \div (n - 1)]

\* v[a:b] with 0 <= a: the elements of Python indices a .. b-1 that exist
Slice(v, a, b) ==
    [k \in 1 .. (Min(b, Len(v)) - Min(a, Len(v))) |-> v[Min(a, Len(v)) + k]]

\* how a slice with step -1 reads a bound: a negative bound counts from the
\* end, and what is still out of range is cut to the ends
AdjustIndex(x, len) ==
    IF x < 0 THEN (IF x + len < 0 THEN -1 ELSE x + len)
    ELSE IF x >= len THEN len - 1 ELSE x

\* v[a:b:-1]: the elements of Python indices a, a-1, .. down to b excluded
SliceBack(v, a, b) ==
    [k \in 1 .. (AdjustIndex(a, Len(v)) - AdjustIndex(b, Len(v))) |->
        v[AdjustIndex(a, Len(v)) - k + 2]]

\* mutant: no row is reversed
ReversingRow_Forward(init_vector, side, i) ==
    Slice(init_vector, i * side, i * side + side)

\* the slice the loop body extends input_vector with for row i
ReversingRow(init_vector, side, i) ==
    IF i % 2 = 0
    THEN Slice(init_vector, i * side, i * side + side)
    ELSE SliceBack(init_vector, i * side + side - 1, i * side - 1)

\* input_vector after the first k rounds of for i in range(side)
RECURSIVE ReversingRows(_, _, _)
ReversingRows(init_vector, side, k) ==
    IF k = 0 THEN <<>>
    ELSE ReversingRows(init_vector, side, k - 1) \o ReversingRow(init_vector, side, k - 1)

\* np.interp(x, xp, fp) for one x: linear between the two points, the end
\* values outside
interp(x, xp, fp) ==
    IF x <= xp[1] THEN fp[1]
    ELSE IF x >= xp[2] THEN fp[2]
    ELSE fp[1] + ((x - xp[1]) * (fp[2] - fp[1])) \div (xp[2] - xp[1])

\* prepareInput(n, input_range, angle_range, dist): np.random.uniform takes no
\* dtype argument, the call in the "random" branch raises TypeError; every
\* name other than "random" and "reversing" takes the else branch
prepareInput(n, angle_range, dist) ==
    LET side == isqrt(n)
        input_vector ==
            IF lower(dist) = "reversing"
            THEN ReversingRows(linspace(n), side, side)
            ELSE linspace(n)
    IN  IF lower(dist) = "random"
        THEN [raised |-> "TypeError", input_vector |-> <<>>, input_angles |-> <<>>]
        ELSE [raised |-> "none", input_vector |-> input_vector,
              input_angles |-> [k \in 1 .. Len(input_vector) |->
                                   interp(input_vector[k], input_range, angle_range)]]

-----------------------------------------------------------------------------
(* The accuracy expression of the experiment functions                       *)

\* longest original vector the accuracy expression is applied to
MaxLen == 2
\* values of the original vector and of the decoder's output the expression
\* is applied to
OriginalValues == {0, 10, 223, 255}
ReconValues == {-1, 0, 31, 245, 300}
\* what a division by zero comes to: ZeroDivisionError on Python integers,
\* inf with a warning on numpy integers, and then 1 - inf = -inf
DivZeroOutcomes == {"ZeroDivisionError", "-inf"}

RECURSIVE SeqSum(_)
SeqSum(s) == IF s = <<>> THEN 0 ELSE Head(s) + SeqSum(Tail(s))

\* mutant: the original value is compared as it is
Expected_NotInverted(x) == x

\* 255 - input_vector[i]
Expected(x) == 255 - x

\* round(a / b, 4) for a >= 0, b > 0, counted in units of 1/10000; a tie
\* goes to the even neighbour
round4(a, b) ==
    LET q == (10000 * a) \div b
        r == (10000 * a) % b
    IN  IF 2 * r > b \/ (2 * r = b /\ q % 2 = 1) THEN q + 1 ELSE q

\* the divisor max((255 - input_vector[i]), output_vector[i])
Divisor(x, y) == Max(Expected(x), y)

\* one element of the list comprehension, in units of 1/10000
Term(x, y) ==
    IF Expected(x) # y
    THEN 10000 - round4(Abs(y - Expected(x)), Divisor(x, y))
    ELSE 10000

\* position i divides by zero
DividesByZero(x, y) == Expected(x) # y /\ Divisor(x, y) = 0

\* positions (from 1) at which the evaluation of the list comprehension for
\* i in range(n) raises: output_vector[i] does not exist, or z says that a
\* division by zero raises
RaisingPositions(input_vector, output_vector, n, z) ==
    {i \in 1 .. n :
        \/ i > Len(output_vector)
        \/ i > Len(input_vector)
        \/ z = "ZeroDivisionError" /\ DividesByZero(input_vector[i], output_vector[i])}

\* accuracy = statistics.fmean([... for i in range(n)]): the exception the
\* first raising position raises, else -inf when a term is -inf, else the
\* sum of the terms over their number (sum in units of 1/10000)
accuracy(input_vector, output_vector, n, z) ==
    LET bad == RaisingPositions(input_vector, output_vector, n, z)
        first == CHOOSE i \in bad : \A j \in bad : i <= j
        zero == {i \in 1 .. n : DividesByZero(input_vector[i], output_vector[i])}
    IN  IF bad # {}
        THEN [raised |-> IF first > Len(output_vector) \/ first > Len(input_vector)
                         THEN "IndexError" ELSE "ZeroDivisionError",
              inf |-> FALSE, sum |-> 0, count |-> 0]
        ELSE IF zero # {}
        THEN [raised |-> "none", inf |-> TRUE, sum |-> 0, count |-> n]
        ELSE [raised |-> "none", inf |-> FALSE,
              sum |-> SeqSum([i \in 1 .. n |-> Term(input_vector[i], output_vector[i])]),
              count |-> n]

-----------------------------------------------------------------------------
(* One application of a function                                             *)

NoApp == [fn |-> "none", n |-> 0, dist |-> "none", angle_range |-> <<0, 0>>,
          input_vector |-> <<>>, input_angles |-> <<>>, output_vector |-> <<>>,
          raised |-> "none", inf |-> FALSE, sum |-> 0, count |-> 0]

\* dist = "reversing", the value of __main__ when sys.argv[3] is absent
DefaultDist == "reversing"
\* the values of dist under which the ibmq branch is run: the names for which
\* prepareInput returns a vector, one per branch of the function
IbmqDists == {"linear", "reversing"}
\* no input was encoded for the handle by this program or before it
NoTicket == [n |-> 0, dist |-> "none"]

-----------------------------------------------------------------------------
(* Initial state: no process runs, nothing is on disk, the three hardcoded   *)
(* jobs exist at the remote service; they were submitted by one earlier run  *)
(* of the submit branch, under one of the distributions.                     *)

Init ==
    /\ mode = "none"
    /\ scheme = "none"
    /\ todo = <<>>
    /\ exp = get_dict("none")
    /\ call = NoCall
    /\ errLog = <<>>
    /\ status = [h \in Handles |-> IF h < FirstHandle THEN "pending" ELSE "none"]
    /\ nextJob = FirstHandle
    /\ decodes = 0
    /\ failures = 0
    /\ disk = [ibmq |-> NoFile, exp |-> NoFile, qpy |-> NoFile]
    /\ app = NoApp
    /\ distArg = "none"
    /\ ticket \in {[h \in Handles |-> IF h < FirstHandle
                                      THEN [n |-> HardcodedSizes[h], dist |-> d]
                                      ELSE NoTicket] : d \in IbmqDists}

\* a process ends: everything in memory is gone
EndProcess ==
    /\ mode' = "none"
    /\ distArg' = "none"
    /\ scheme' = "none"
    /\ todo' = <<>>
    /\ exp' = get_dict("none")
    /\ call' = NoCall
    /\ errLog' = <<>>
    /\ decodes' = 0
    /\ failures' = 0

-----------------------------------------------------------------------------
(* __main__, synchronous batches ("ql", "ph", "frqi")                         *)

InputsOf(sch) == IF sch = "frqi" THEN power_inputs ELSE square_inputs

\* The synchronous branches read nothing the ibmq branch or the remote service
\* writes (status, nextJob, the ledger file), and the ibmq branch reads nothing
\* a synchronous batch writes: a batch is explored from the states in which
\* the ibmq side is still as it was initially.
IbmqUntouched ==
    /\ \A h \in Handles : status[h] = (IF h < FirstHandle THEN "pending" ELSE "none")
    /\ nextJob = FirstHandle
    /\ ~disk.ibmq.present

\* No branch reads a .qpy file (the qpy.load lines are comments): the
\* branches of __main__ are explored from the states without one.
NoStoredCircuit == ~disk.qpy.present

\* exp = btq_plotter.get_dict("exp"); exp['name'] = ...
StartBatch(sch) ==
    /\ mode = "none"
    /\ IbmqUntouched
    /\ NoStoredCircuit
    /\ mode' = "sync"
    /\ distArg' = DefaultDist
    /\ scheme' = sch
    /\ todo' = InputsOf(sch)
    /\ exp' = get_dict(sch)
    /\ call' = NoCall
    /\ errLog' = <<>>
    /\ decodes' = 0
    /\ failures' = 0
    /\ UNCHANGED <<ticket, app, status, nextJob, disk>>

\* top of the loop body: the two appends inside try, then the pure call
IterBegin ==
    /\ mode = "sync"
    /\ call.fn = "none"
    /\ todo # <<>>
    /\ exp' = [exp EXCEPT !.shots = Append(@, Shots), !.size = Append(@, Head(todo))]
    /\ call' = ExperimentCall(Head(todo), FALSE)
    /\ UNCHANGED <<distArg, ticket, app, mode, scheme, todo, errLog, status, nextJob, decodes, failures, disk>>

\* one stage of the running experiment function completes
ExperimentStep ==
    /\ call.fn = "experiment"
    /\ call.stage \notin {"return", "store"}
    /\ exp' = StageEffect(exp, scheme, call.n, call.noisy, call.stage)
    /\ call' = [call EXCEPT !.stage = NextStage(BodyOrder(call.run_simulation), call.stage),
                            !.trace = Append(@, call.stage),
                            !.compiled = IF call.stage = "transpile"
                                         THEN transpileCircuit(call.noisy, "simulator")
                                         ELSE @,
                            !.executed = IF call.stage = "simulate"
                                         THEN simulate(FALSE, "simulator")
                                         ELSE @]
    /\ UNCHANGED <<distArg, ticket, app, mode, scheme, todo, errLog, status, nextJob, decodes, failures, disk>>

\* a stage raises: the exception leaves the function and reaches the
\* except clause of the loop body, which logs it; the loop goes on
ExperimentRaise ==
    /\ mode = "sync"
    /\ call.fn = "experiment"
    /\ call.stage \in RaisingStages
    /\ failures < MaxFailures
    /\ failures' = failures + 1
    /\ errLog' = Append(errLog, Head(todo))
    /\ todo' = Tail(todo)
    /\ call' = NoCall
    /\ UNCHANGED <<distArg, ticket, app, mode, scheme, exp, status, nextJob, decodes, disk>>

\* the pure call returns: supermarq metrics are appended, the noisy call starts
ReturnPure ==
    /\ mode = "sync"
    /\ call.fn = "experiment"
    /\ call.stage = "return"
    /\ ~call.noisy
    /\ exp' = [exp EXCEPT !.supermarq_metrics = Append(@, Entry(call.n, "tcircuit"))]
    /\ call' = ExperimentCall(call.n, TRUE)
    /\ UNCHANGED <<distArg, ticket, app, mode, scheme, todo, errLog, status, nextJob, decodes, failures, disk>>

\* the noisy call returns: the iteration is over
ReturnNoisy ==
    /\ mode = "sync"
    /\ call.fn = "experiment"
    /\ call.stage = "return"
    /\ call.noisy
    /\ todo' = Tail(todo)
    /\ call' = NoCall
    /\ UNCHANGED <<distArg, ticket, app, mode, scheme, exp, errLog, status, nextJob, decodes, failures, disk>>

\* after the loop: pickle.dump(exp, f); the process goes on to the plots and
\* ends.  The program never reads this file back; the model keeps of it which
\* record it holds and how many trials that record lists.
EndBatch ==
    /\ mode = "sync"
    /\ call.fn = "none"
    /\ todo = <<>>
    /\ disk' = [disk EXCEPT !.exp = File(<<exp.name, Len(exp.size)>>)]
    /\ EndProcess
    /\ UNCHANGED <<ticket, app, status, nextJob>>

-----------------------------------------------------------------------------
(* An experiment function called with run_simulation left at its default     *)
(* False, on a fresh record, by a script of its own (mode "compile")         *)

\* the prefix of the file name: qubitLatticeExperiment and phaseExperiment
\* both write ql_<n>x<n>_<qubits>.qpy, frqiExperiment frqi_<n>x<n>_<qubits>.qpy
QpyPrefix(sch) == IF sch = "frqi" THEN "frqi" ELSE "ql"

\* exp_dict, circuit, accuracy = <scheme>Experiment(n=n, exp_dict=exp, noisy=noisy)
StartCompileOnly(sch, n, noisy) ==
    /\ mode = "none"
    /\ IbmqUntouched
    /\ NoStoredCircuit
    /\ ~disk.exp.present
    /\ mode' = "compile"
    /\ distArg' = "none"
    /\ scheme' = sch
    /\ todo' = <<n>>
    /\ exp' = get_dict(sch)
    /\ call' = CompileOnlyCall(n, noisy)
    /\ errLog' = <<>>
    /\ decodes' = 0
    /\ failures' = 0
    /\ UNCHANGED <<ticket, app, status, nextJob, disk>>

\* else branch of if run_simulation: qpy.dump(tcircuit, f)
StoreCircuit ==
    /\ call.fn = "experiment"
    /\ call.stage = "store"
    /\ disk' = [disk EXCEPT !.qpy = File(<<QpyPrefix(scheme), call.n>>)]
    /\ call' = [call EXCEPT !.stage = NextStage(CompileOnlyOrder, call.stage),
                            !.trace = Append(@, call.stage)]
    /\ UNCHANGED <<distArg, ticket, app, mode, scheme, todo, exp, errLog, status, nextJob, decodes, failures>>

\* return exp_dict, tcircuit, accuracy: accuracy is assigned inside
\* if run_simulation only, reading it raises UnboundLocalError
ReturnCompileOnly ==
    /\ mode = "compile"
    /\ call.fn = "experiment"
    /\ call.stage = "return"
    /\ call' = [call EXCEPT !.fn = "none", !.stage = "UnboundLocalError"]
    /\ UNCHANGED <<distArg, ticket, app, mode, scheme, todo, exp, errLog, status, nextJob, decodes, failures,
                   disk>>

\* a stage raises: nothing catches it, the call is over
CompileOnlyRaise ==
    /\ mode = "compile"
    /\ call.fn = "experiment"
    /\ call.stage \in RaisingStages
    /\ failures < MaxFailures
    /\ failures' = failures + 1
    /\ call' = [call EXCEPT !.fn = "none", !.stage = "raised"]
    /\ UNCHANGED <<distArg, ticket, app, mode, scheme, todo, exp, errLog, status, nextJob, decodes, disk>>

\* the script ends
CompileOnlyExit ==
    /\ mode = "compile"
    /\ call.fn = "none"
    /\ EndProcess
    /\ UNCHANGED <<ticket, app, status, nextJob, disk>>

-----------------------------------------------------------------------------
(* frqiExperimentIBMQ, mode "submit"                                          *)

SubmitEncodeEffect(r, t) ==
    [AppendDp(AppendRt(r, "Encoder", Entry(t, "elapsed")), "Encoder", Entry(t, "circuit"))
        EXCEPT !.widths = Append(@, Entry(t, "circuit"))]

SubmitInvertEffect(r, t) ==
    [AppendDp(r, "Invert + Measurement", Entry(t, "circuit"))
        EXCEPT !.stateVectors = Append(@, Entry(t, "circuit"))]

\* depths["Transpile"] receives circuit.depth(), count_ops tcircuit.count_ops()
SubmitTranspileEffect(r, t) ==
    [AppendDp(AppendRt(r, "Transpile", Entry(t, "elapsed")), "Transpile", Entry(t, "circuit"))
        EXCEPT !.count_ops = Append(@, Entry(t, "tcircuit"))]

\* job = simulate(..., backend="ibmq"); the runtime and the job are appended
SubmitSimulateEffect(r, t) ==
    [AppendRt(r, "Simulate", Entry(t, "elapsed")) EXCEPT !.jobs = Append(@, t)]

SubmitEffect(r, t, stage) ==
    CASE stage = "input"     -> r
      [] stage = "encode"    -> SubmitEncodeEffect(r, t)
      [] stage = "invert"    -> SubmitInvertEffect(r, t)
      [] stage = "transpile" -> SubmitTranspileEffect(r, t)
      [] stage = "simulate"  -> SubmitSimulateEffect(r, t)

\* exp_list as the ibmq branch of __main__ sees it: [] and never appended to
exp_list == <<>>

\* __main__ ibmq submit: exp = btq_plotter.get_dict("ibmq")
StartSubmit(d) ==
    /\ mode = "none"
    /\ NoStoredCircuit
    /\ nextJob \in Handles
    /\ mode' = "submit"
    /\ distArg' = d
    /\ scheme' = "frqi"
    /\ todo' = <<Last(power_inputs)>>
    /\ exp' = get_dict("ibmq")
    /\ call' = NoCall
    /\ errLog' = <<>>
    /\ decodes' = 0
    /\ failures' = 0
    /\ UNCHANGED <<ticket, app, status, nextJob, disk>>

\* loop body: exp['size'].append(_input), then the call with mode="submit"
SubmitBegin ==
    /\ mode = "submit"
    /\ call.fn = "none"
    /\ todo # <<>>
    /\ nextJob \in Handles
    /\ exp' = [exp EXCEPT !.size = Append(@, Head(todo))]
    /\ call' = [NoCall EXCEPT !.fn = "submit", !.n = Head(todo),
                              !.stage = SubmitOrder[1], !.tag = nextJob]
    /\ nextJob' = nextJob + 1
    /\ UNCHANGED <<distArg, ticket, app, mode, scheme, todo, errLog, status, decodes, failures, disk>>

\* one stage of the submit phase completes; the simulate stage creates the
\* remote job
SubmitStep ==
    /\ call.fn = "submit"
    /\ call.stage # "return"
    /\ exp' = SubmitEffect(exp, call.tag, call.stage)
    /\ call' = [call EXCEPT !.stage = NextStage(SubmitOrder, call.stage),
                            !.trace = Append(@, call.stage),
                            !.compiled = IF call.stage = "transpile"
                                         THEN transpileCircuit(FALSE, "ibmq")
                                         ELSE @,
                            !.executed = IF call.stage = "simulate"
                                         THEN simulate(FALSE, "ibmq")
                                         ELSE @]
    /\ status' = IF call.stage = "simulate"
                 THEN [status EXCEPT ![call.tag] = "pending"]
                 ELSE status
    /\ ticket' = IF call.stage = "input"
                 THEN [ticket EXCEPT ![call.tag] = [n |-> call.n, dist |-> distArg]]
                 ELSE ticket
    /\ UNCHANGED <<distArg, app, mode, scheme, todo, errLog, nextJob, decodes, failures, disk>>

\* a stage of the submit phase raises: nothing catches it, the process dies
SubmitRaise ==
    /\ call.fn = "submit"
    /\ call.stage \in RaisingStages
    /\ EndProcess
    /\ UNCHANGED <<ticket, app, status, nextJob, disk>>

\* return exp_dict
ReturnSubmit ==
    /\ call.fn = "submit"
    /\ call.stage = "return"
    /\ todo' = Tail(todo)
    /\ call' = NoCall
    /\ UNCHANGED <<distArg, ticket, app, mode, scheme, exp, errLog, status, nextJob, decodes, failures, disk>>

\* after the loop: pickle.dump(exp_list, f) into exp_ibmq_<date>.pkl
SubmitDump ==
    /\ mode = "submit"
    /\ call.fn = "none"
    /\ todo = <<>>
    /\ disk' = [disk EXCEPT !.ibmq = File(exp_list)]
    /\ mode' = "submitted"
    /\ UNCHANGED <<distArg, ticket, app, scheme, todo, exp, call, errLog, status, nextJob, decodes, failures>>

-----------------------------------------------------------------------------
(* frqiExperimentIBMQ, mode "decode"                                          *)

\* entry of the decode phase on record r: the retrieval loop runs only when
\* r['results'] is empty
DecodeCall(r) ==
    [NoCall EXCEPT !.fn = "decode",
                   !.stage = IF r.results = <<>> THEN "retrieve" ELSE "decodeloop",
                   !.idx = 1,
                   !.avail = {h \in Range(r.jobs) : status[h] = "ready"}]

\* __main__ ibmq decode: the call on custom_ibmq_experiment_dict
MainDecode(d) ==
    /\ mode = "none"
    /\ NoStoredCircuit
    /\ mode' = "decode"
    /\ distArg' = d
    /\ scheme' = "frqi"
    /\ todo' = <<>>
    /\ exp' = custom_ibmq_experiment_dict
    /\ call' = DecodeCall(custom_ibmq_experiment_dict)
    /\ errLog' = <<>>
    /\ decodes' = 1
    /\ failures' = 0
    /\ UNCHANGED <<ticket, app, status, nextJob, disk>>

\* a further call with mode="decode" on the record in memory
DecodeAgain ==
    /\ mode \in {"submit", "submitted", "decode"}
    /\ call.fn = "none"
    /\ decodes < MaxDecodes
    /\ call' = DecodeCall(exp)
    /\ decodes' = decodes + 1
    /\ UNCHANGED <<distArg, ticket, app, mode, scheme, todo, exp, errLog, status, nextJob, failures, disk>>

\* retrieval loop, one job: qiskitService.job(job).result() returns.  result()
\* is called without a timeout: it waits until the job has reached a final
\* state, so while the job is pending the call has no step.
RetrieveResult ==
    /\ call.fn = "decode"
    /\ call.stage = "retrieve"
    /\ call.idx <= Len(exp.jobs)
    /\ status[exp.jobs[call.idx]] = "ready"
    /\ exp' = [exp EXCEPT !.results = Append(@, Entry(exp.jobs[call.idx], "result"))]
    /\ call' = [call EXCEPT !.idx = @ + 1, !.polled = @ \cup {exp.jobs[call.idx]}]
    /\ UNCHANGED <<distArg, ticket, app, mode, scheme, todo, errLog, status, nextJob, decodes, failures, disk>>

\* retrieval loop, one job: the lookup or result() raises (the job failed or is
\* unknown to the service); the try around the whole loop catches it and the
\* loop is left.  The submit phase stores the job object itself in
\* exp_dict['jobs'] where the hardcoded list holds job ids, so for a job
\* submitted on this record the lookup by qiskitService.job may raise as well.
RetrieveRaise ==
    /\ call.fn = "decode"
    /\ call.stage = "retrieve"
    /\ call.idx <= Len(exp.jobs)
    /\ \/ status[exp.jobs[call.idx]] \in {"failed", "none"}
       \/ status[exp.jobs[call.idx]] = "ready" /\ exp.jobs[call.idx] >= FirstHandle
    /\ call' = [call EXCEPT !.stage = "decodeloop", !.idx = 1,
                            !.polled = @ \cup {exp.jobs[call.idx]}]
    /\ UNCHANGED <<distArg, ticket, app, mode, scheme, todo, exp, errLog, status, nextJob, decodes, failures, disk>>

\* retrieval loop exhausted
RetrieveDone ==
    /\ call.fn = "decode"
    /\ call.stage = "retrieve"
    /\ call.idx > Len(exp.jobs)
    /\ call' = [call EXCEPT !.stage = "decodeloop", !.idx = 1]
    /\ UNCHANGED <<distArg, ticket, app, mode, scheme, todo, exp, errLog, status, nextJob, decodes, failures, disk>>

\* what the body of the decode loop appends for result i of record r
\* under dist d; the data point holds the input prepareInput returns for
\* n = exp_dict['size'][i] and d, kept here as the two arguments
DecodeOneEffect(r, i, d) ==
    [AppendRt(AppendRt(r, "Simulate", Entry(r.results[i].t, "time_taken")),
              "Decoder", Entry(r.results[i].t, "elapsed"))
        EXCEPT !.data_points = Append(@, Entry(r.results[i].t, [n |-> r.size[i], dist |-> d])),
               !.accuracy = Append(@, Entry(r.results[i].t, "score"))]

\* decode loop, one result
DecodeOne ==
    /\ call.fn = "decode"
    /\ call.stage = "decodeloop"
    /\ call.idx <= Len(exp.results)
    /\ call.idx <= Len(exp.size)
    /\ exp' = DecodeOneEffect(exp, call.idx, distArg)
    /\ call' = [call EXCEPT !.idx = @ + 1]
    /\ UNCHANGED <<distArg, ticket, app, mode, scheme, todo, errLog, status, nextJob, decodes, failures, disk>>

\* decode loop exhausted: return exp_dict
DecodeReturn ==
    /\ call.fn = "decode"
    /\ call.stage = "decodeloop"
    /\ call.idx > Len(exp.results)
    /\ call' = [call EXCEPT !.fn = "none", !.stage = "returned"]
    /\ UNCHANGED <<distArg, ticket, app, mode, scheme, todo, exp, errLog, status, nextJob, decodes, failures, disk>>

\* the ibmq process ends (end of the script, or the operator stops it)
Exit ==
    /\ mode \in {"submit", "submitted", "decode"}
    /\ EndProcess
    /\ UNCHANGED <<ticket, app, status, nextJob, disk>>

-----------------------------------------------------------------------------
(* The remote service: a pending job completes or fails, at any time a       *)
(* process of the ibmq branch or no process runs.                            *)

JobReady(h) ==
    /\ mode # "sync"
    /\ status[h] = "pending"
    /\ status' = [status EXCEPT ![h] = "ready"]
    /\ UNCHANGED <<distArg, ticket, app, mode, scheme, todo, exp, call, errLog, nextJob, decodes, failures, disk>>

JobFail(h) ==
    /\ mode # "sync"
    /\ status[h] = "pending"
    /\ status' = [status EXCEPT ![h] = "failed"]
    /\ UNCHANGED <<distArg, ticket, app, mode, scheme, todo, exp, call, errLog, nextJob, decodes, failures, disk>>

-----------------------------------------------------------------------------

Next ==
    \/ \E sch \in Schemes : StartBatch(sch)
    \/ IterBegin
    \/ ExperimentStep
    \/ ExperimentRaise
    \/ ReturnPure
    \/ ReturnNoisy
    \/ EndBatch
    \/ \E sch \in Schemes, noisy \in BOOLEAN :
           \E n \in Range(InputsOf(sch)) : StartCompileOnly(sch, n, noisy)
    \/ StoreCircuit
    \/ ReturnCompileOnly
    \/ CompileOnlyRaise
    \/ CompileOnlyExit
    \/ \E d \in IbmqDists : StartSubmit(d)
    \/ SubmitBegin
    \/ SubmitStep
    \/ SubmitRaise
    \/ ReturnSubmit
    \/ SubmitDump
    \/ \E d \in IbmqDists : MainDecode(d)
    \/ DecodeAgain
    \/ RetrieveResult
    \/ RetrieveRaise
    \/ RetrieveDone
    \/ DecodeOne
    \/ DecodeReturn
    \/ Exit
    \/ \E h \in Handles : JobReady(h)
    \/ \E h \in Handles : JobFail(h)

Spec == Init /\ [][Next]_vars

\* The running process keeps executing its own code: a step of the active
\* call that can be taken is eventually taken.  Nothing obliges the remote
\* service to finish a job, the operator to start or stop a process.
ProgramStep ==
    \/ ExperimentStep \/ ReturnPure \/ ReturnNoisy
    \/ StoreCircuit \/ ReturnCompileOnly
    \/ SubmitStep \/ ReturnSubmit
    \/ RetrieveResult \/ RetrieveRaise \/ RetrieveDone \/ DecodeOne \/ DecodeReturn

FairSpec == Spec /\ WF_vars(ProgramStep)

-----------------------------------------------------------------------------
(* prepareInput and the accuracy expression on their own: each step applies  *)
(* one of them, once, to arguments drawn from the sets above and keeps the   *)
(* arguments with what came out.                                             *)

\* input_vector, input_angles = prepareInput(n=n, input_range=(0, 255),
\*                                           angle_range=..., dist=dist)
PrepareInputCall(n, angle_range, dist) ==
    /\ app.fn = "none"
    /\ app' = [NoApp EXCEPT !.fn = "prepareInput", !.n = n, !.dist = dist,
                            !.angle_range = angle_range,
                            !.input_vector = prepareInput(n, angle_range, dist).input_vector,
                            !.input_angles = prepareInput(n, angle_range, dist).input_angles,
                            !.raised = prepareInput(n, angle_range, dist).raised]
    /\ UNCHANGED <<distArg, ticket, mode, scheme, todo, exp, call, errLog, status, nextJob, decodes,
                   failures, disk>>

\* accuracy = statistics.fmean([...]) on an original vector of length n and
\* a decoder output of any length
AccuracyCall(input_vector, output_vector, z) ==
    /\ app.fn = "none"
    /\ app' = [NoApp EXCEPT !.fn = "accuracy", !.n = Len(input_vector),
                            !.input_vector = input_vector,
                            !.output_vector = output_vector,
                            !.raised = accuracy(input_vector, output_vector,
                                                Len(input_vector), z).raised,
                            !.inf = accuracy(input_vector, output_vector,
                                             Len(input_vector), z).inf,
                            !.sum = accuracy(input_vector, output_vector,
                                             Len(input_vector), z).sum,
                            !.count = accuracy(input_vector, output_vector,
                                               Len(input_vector), z).count]
    /\ UNCHANGED <<distArg, ticket, mode, scheme, todo, exp, call, errLog, status, nextJob, decodes,
                   failures, disk>>

FnNext ==
    \/ \E n \in Sizes, angle_range \in AngleRanges, dist \in DistNames :
           PrepareInputCall(n, angle_range, dist)
    \/ \E n \in 1 .. MaxLen, m \in 0 .. (MaxLen + 1), z \in DivZeroOutcomes :
           \E input_vector \in [1 .. n -> OriginalValues],
              output_vector \in [1 .. m -> ReconValues] :
               AccuracyCall(input_vector, output_vector, z)

FnSpec == Init /\ [][FnNext]_vars

-----------------------------------------------------------------------------
(* Claims *)

IbmqRecord == mode \in {"submit", "submitted", "decode"}

\* C1: resolving is idempotent: however often the decode phase runs on a
\* record, each ticket of the record has at most one accuracy score, one
\* data-point pair and one Decoder runtime.
C1_ResolveIdempotent ==
    IbmqRecord =>
        \A h \in Range(exp.jobs) :
            /\ Count(exp.accuracy, h) <= 1
            /\ Count(exp.data_points, h) <= 1
            /\ Count(exp.runtimes["Decoder"], h) <= 1

\* C2: submission is crash-safe: once the submit call that created a job has
\* returned, the job's handle is in the ledger on durable storage.
C2_SubmitCrashSafe ==
    \A h \in Handles :
        (/\ h >= FirstHandle
         /\ status[h] # "none"
         /\ ~(call.fn = "submit" /\ call.tag = h))
        => h \in LedgerHandles

\* C3: a decode invocation in which the retrieval of one ticket failed has
\* nevertheless retrieved, decoded and scored every ticket whose result was
\* available when it started.
C3_FailureDoesNotAbortOthers ==
    (/\ call.stage = "returned"
     /\ \E h \in call.polled : status[h] \in {"failed", "none"})
    => \A h \in call.avail :
           /\ Count(exp.results, h) >= 1
           /\ Count(exp.accuracy, h) >= 1

\* C4: a ticket that an earlier decode invocation left unresolved is still in
\* the ledger and was polled again by the next decode invocation on that
\* ledger, also when other tickets of the ledger were resolved before.
C4_UnresolvedPolledAgain ==
    (/\ call.stage = "returned"
     /\ decodes >= 2
     /\ \E h \in Range(exp.jobs) : Count(exp.results, h) >= 1 /\ h \notin call.polled)
    => \A h \in Range(exp.jobs) :
           Count(exp.results, h) = 0 => h \in call.polled

\* C5: a decode invocation always terminates: one that is running eventually
\* has returned, also when a remote job never completes.
C5_DecodeTerminates == (call.fn = "decode") ~> (call.fn # "decode")

\* C6: the decode process works on the ledger loaded from durable storage: the
\* tickets of its record are exactly the tickets the ledger file holds.
C6_DecodeStartsFromLedger ==
    mode = "decode" => (disk.ibmq.present /\ Range(exp.jobs) = LedgerHandles)

\* the inputs of the batch that did not fail, in loop order
SucceededInputs ==
    SelectSeq(InputsOf(scheme), LAMBDA n : n \notin Range(errLog))

\* C7: per-trial failure isolation: at the end of a batch in which exactly one
\* trial raised, every per-trial list of the record holds entries for exactly
\* the other trials, and one failure is logged.
C7_FailureIsolation ==
    (mode = "sync" /\ call.fn = "none" /\ todo = <<>> /\ Len(errLog) = 1)
    => /\ exp.size = SucceededInputs
       /\ Len(exp.shots) = Len(SucceededInputs)
       /\ \A k \in RuntimeKeys : Tags(exp.runtimes[k]) = SucceededInputs
       /\ \A k \in DepthKeys : Tags(exp.depths[k]) = SucceededInputs
       /\ Tags(exp.widths) = SucceededInputs
       /\ Tags(exp.accuracy) = SucceededInputs
       /\ Tags(exp.data_points) = SucceededInputs

\* the stage order the pipeline is specified to follow
C8Order == <<"input", "encode", "invert", "transpile", "simulate", "decode",
             "datapoints", "accuracy">>

\* the list of the record that stage st of a trial appends to
StageList(r, st, noisy) ==
    CASE st = "encode"     -> r.runtimes[IF noisy THEN "Noisy Encoder" ELSE "Encoder"]
      [] st = "transpile"  -> r.runtimes[IF noisy THEN "Noisy Transpile" ELSE "Transpile"]
      [] st = "simulate"   -> r.runtimes[IF noisy THEN "Noisy Simulate" ELSE "Simulate"]
      [] st = "decode"     -> r.runtimes[IF noisy THEN "Noisy Decoder" ELSE "Decoder"]
      [] st = "datapoints" -> IF noisy THEN r.noisy_data_points ELSE r.data_points
      [] st = "accuracy"   -> IF noisy THEN r.noisy_accuracy ELSE r.accuracy

RecordingStages == {"encode", "transpile", "simulate", "decode", "datapoints", "accuracy"}

\* C8: within one synchronous trial the stages run strictly in the order input,
\* encode, invert, transpile, simulate, decode, data points, accuracy: the
\* stages completed so far are always a prefix of that order, the call returns
\* only after all of them, and the record holds a stage's value for the trial
\* exactly when that stage has completed.  (A trial runs the simulation: the
\* call was made with run_simulation=True.)
C8_StagesInOrder ==
    (call.fn = "experiment" /\ call.run_simulation) =>
        /\ IsPrefix(call.trace, C8Order)
        /\ (call.stage = "return" => call.trace = C8Order)
        /\ (call.stage # "return" => call.stage = C8Order[Len(call.trace) + 1])
        /\ \A st \in RecordingStages :
               Count(StageList(exp, st, call.noisy), call.n)
                   = (IF st \in Range(call.trace) THEN 1 ELSE 0)

\* a noisy trial of the phase scheme has run all its stages
C8_Witness ==
    /\ call.fn = "experiment"
    /\ scheme = "ph"
    /\ call.noisy
    /\ call.stage = "return"
    /\ call.trace = C8Order
    /\ Count(exp.noisy_accuracy, call.n) = 1

\* C9: every runtime key of the record holds at most one value per trial after
\* any sequence of synchronous trials, submits and decodes on the record.
C9_OneValuePerTrial ==
    \A k \in RuntimeKeys :
        \A i, j \in 1 .. Len(exp.runtimes[k]) :
            i # j => exp.runtimes[k][i].t # exp.runtimes[k][j].t

\* the keys a pure trial writes
PureKeys(r) ==
    <<[k \in PureRuntimeKeys |-> r.runtimes[k]], r.depths, r.widths, r.count_ops,
      r.data_points, r.accuracy>>

\* the keys a noisy trial writes
NoisyKeys(r) ==
    <<[k \in NoisyRuntimeKeys |-> r.runtimes[k]], r.noisy_data_points, r.noisy_accuracy>>

\* C10: pure and noisy trials write disjoint keys: no step of a noisy trial
\* changes a pure key and no step of a pure trial changes a noisy key, and a
\* stage that records appends to the list of its own variant.
C10_DisjointKeys ==
    [][call.fn = "experiment" =>
          /\ (call.noisy => PureKeys(exp') = PureKeys(exp))
          /\ (~call.noisy => NoisyKeys(exp') = NoisyKeys(exp))
          /\ (call'.fn = "experiment" /\ call'.noisy = call.noisy
                 /\ call.stage \in RecordingStages /\ call'.stage # call.stage
              => Len(StageList(exp', call.stage, call.noisy))
                     = Len(StageList(exp, call.stage, call.noisy)) + 1)]_vars

\* a noisy trial has run to its end on a record that already holds the pure
\* trial of the same input
C10_Witness ==
    /\ call.fn = "experiment"
    /\ call.noisy
    /\ call.stage = "return"
    /\ Count(exp.noisy_accuracy, call.n) = 1
    /\ Count(exp.runtimes["Noisy Decoder"], call.n) = 1
    /\ Count(exp.accuracy, call.n) = 1
    /\ Count(exp.depths["Invert + Measurement"], call.n) = 1

-----------------------------------------------------------------------------
(* Claims about the accuracy expression and prepareInput, under FnSpec       *)

\* the four-decimal roundings of a / b, counted in 1/10000: the neighbours
\* of 10000 a / b that lie within half a unit of it
C11_Roundings(a, b) ==
    {e \in {(10000 * a) \div b, (10000 * a) \div b + 1} : 2 * Abs(10000 * a - e * b) <= b}

\* the relative errors the claim allows for original x and reconstruction r
C11_Errors(x, r) ==
    IF r = 255 - x THEN {0}
    ELSE C11_Roundings(Abs(r - (255 - x)), Max(255 - x, r))

\* the divisor of the relative error is not zero at any position
C11_Defined ==
    \A i \in 1 .. app.n :
        app.output_vector[i] = 255 - app.input_vector[i]
        \/ Max(255 - app.input_vector[i], app.output_vector[i]) # 0

\* C11: the accuracy of a trial is the arithmetic mean over all positions of
\* 1 - e_i, where the expected value is 255 - original_i and e_i is 0 when
\* the reconstruction equals the expected value and otherwise
\* |reconstruction - expected| / max(expected, reconstruction) rounded to
\* four decimals; original [10] with reconstruction [245] scores 1.0 and
\* with reconstruction [0] scores 0.0.
C11_AccuracyIsMeanOfOneMinusError ==
    (app.fn = "accuracy" /\ Len(app.output_vector) = app.n /\ C11_Defined) =>
        /\ app.raised = "none" /\ ~app.inf
        /\ app.count = app.n
        /\ \E e \in [1 .. app.n ->
                      UNION {C11_Errors(app.input_vector[i], app.output_vector[i]) :
                                i \in 1 .. app.n}] :
              /\ \A i \in 1 .. app.n :
                    e[i] \in C11_Errors(app.input_vector[i], app.output_vector[i])
              /\ app.sum = SeqSum([i \in 1 .. app.n |-> 10000 - e[i]])
        /\ (app.input_vector = <<10>> /\ app.output_vector = <<245>>)
              => app.sum = 10000 * app.count
        /\ (app.input_vector = <<10>> /\ app.output_vector = <<0>>)
              => app.sum = 0

\* a two-position vector scored: one position exact, one off by 1 in 32
C11_Witness ==
    /\ app.fn = "accuracy"
    /\ app.input_vector = <<10, 223>>
    /\ app.output_vector = <<245, 31>>
    /\ app.raised = "none"
    /\ app.sum = 10000 + 9688
    /\ app.count = 2

\* C12: for every original vector over 0..255 and every reconstructed vector
\* of the same length over the integers (above 255, zero and negative
\* included) the accuracy computation does not divide by zero and its
\* result lies in [0, 1].
C12_ScoreInUnitInterval ==
    (app.fn = "accuracy" /\ Len(app.output_vector) = app.n) =>
        /\ app.raised = "none"
        /\ ~app.inf
        /\ 0 <= app.sum
        /\ app.sum <= 10000 * app.count

\* C13: scoring fails with an error whenever the reconstructed vector's
\* length differs from n, shorter or longer; no score is computed over a
\* part of either vector.
C13_LengthMismatchRejected ==
    (app.fn = "accuracy" /\ Len(app.output_vector) # app.n) => app.raised # "none"

\* the distributions prepareInput tests for by name
SupportedDistributions == {"linear", "random", "reversing"}

IsSquare(n) == isqrt(n) * isqrt(n) = n

\* C14: for every perfect-square n >= 1 and every supported distribution
\* prepareInput returns a sample vector and an angle vector of length n, the
\* samples within [0, 255], the angles within the angle range, each angle
\* the monotone linear interpolation of its sample.
C14_PrepareInputShape ==
    (app.fn = "prepareInput" /\ IsSquare(app.n)
        /\ lower(app.dist) \in SupportedDistributions) =>
        /\ app.raised = "none"
        /\ Len(app.input_vector) = app.n
        /\ Len(app.input_angles) = app.n
        /\ \A k \in 1 .. app.n :
              /\ app.input_vector[k] \in 0 .. 255
              /\ app.input_angles[k] \in app.angle_range[1] .. app.angle_range[2]
              /\ 255 * (app.input_angles[k] - app.angle_range[1])
                    = app.input_vector[k] * (app.angle_range[2] - app.angle_range[1])
        /\ \A j, k \in 1 .. app.n :
              app.input_vector[j] <= app.input_vector[k]
                  => app.input_angles[j] <= app.input_angles[k]

\* C15: for a perfect-square n with side s the "reversing" distribution
\* returns the linear sequence of n values in rows of length s, the rows of
\* even index in forward order and the rows of odd index reversed; the
\* output is a permutation of the linear sequence.
C15_ReversingRows ==
    (app.fn = "prepareInput" /\ IsSquare(app.n) /\ lower(app.dist) = "reversing") =>
        LET s == isqrt(app.n)
            lin == prepareInput(app.n, app.angle_range, "linear").input_vector
        IN  /\ Len(app.input_vector) = app.n
            /\ \A i \in 0 .. (s - 1), j \in 0 .. (s - 1) :
                  app.input_vector[i * s + j + 1] =
                      IF i % 2 = 0 THEN lin[i * s + j + 1]
                                   ELSE lin[i * s + (s - 1 - j) + 1]
            /\ \A v \in Range(lin) \cup Range(app.input_vector) :
                  Cardinality({k \in 1 .. app.n : app.input_vector[k] = v})
                      = Cardinality({k \in 1 .. app.n : lin[k] = v})

\* a 3 x 3 input whose middle row came out reversed
C15_Witness ==
    /\ app.fn = "prepareInput"
    /\ app.dist = "reversing"
    /\ app.n = 9
    /\ app.raised = "none"
    /\ app.input_vector[4] > app.input_vector[5]
    /\ app.input_vector[5] > app.input_vector[6]
    /\ app.input_vector[7] < app.input_vector[8]

\* C16: prepareInput called with a distribution name it does not know fails
\* with an error and does not fall back to another distribution.
C16_UnknownDistributionRejected ==
    (app.fn = "prepareInput" /\ lower(app.dist) \notin SupportedDistributions) =>
        app.raised # "none"

-----------------------------------------------------------------------------
(* Claims about the compile and execute steps of the simulator trials        *)

\* C17: compilation is reproducible: every compile step of a pure or noisy
\* simulator trial passes a fixed optimisation seed to the compiler.
C17_CompileSeeded ==
    (call.fn = "experiment" /\ call.run_simulation /\ call.compiled # NoCompile) =>
        call.compiled.seed_transpiler = "0"

\* the record holds no value of a stage that follows the compilation
C18_NothingPastCompile ==
    /\ \A k \in {"Simulate", "Decoder", "Noisy Simulate", "Noisy Decoder"} :
          exp.runtimes[k] = <<>>
    /\ exp.depths["Simulate"] = <<>>
    /\ exp.data_points = <<>> /\ exp.noisy_data_points = <<>>
    /\ exp.accuracy = <<>> /\ exp.noisy_accuracy = <<>>

\* C18: with run_simulation=False an experiment function compiles, stores
\* the compiled circuit and returns normally, without raising and without
\* appending a simulate, decode, data-point or accuracy entry to the record.
C18_CompileOnlyReturns ==
    (mode = "compile" /\ ~call.run_simulation /\ "store" \in Range(call.trace)) =>
        /\ disk.qpy.present
        /\ C18_NothingPastCompile
        /\ call.stage \in {"return", "returned"}

\* C19: the three pipelines append the same kind of value to the same keys:
\* runtimes["Encoder"] holds the elapsed encode duration, the value the log
\* line reports, in all three.
C19_EncoderRuntimeIsElapsed ==
    mode = "sync" =>
        \A i \in 1 .. Len(exp.runtimes["Encoder"]) :
            exp.runtimes["Encoder"][i].v = "elapsed"

\* the backend of a trial's profile
ProfileBackend(noisy) == IF noisy THEN "noisy_backend" ELSE "pure_backend"

\* C20: the backend of a simulator trial matches its noise profile: the
\* circuit is compiled against and executed on the noisy backend when
\* noisy=True and on the ideal backend when noisy=False, and the execution
\* returns a result object.
C20_BackendMatchesProfile ==
    call.fn = "experiment" =>
        /\ call.compiled # NoCompile =>
              call.compiled.backend = ProfileBackend(call.noisy)
        /\ call.executed # NoRun =>
              /\ call.executed.backend = ProfileBackend(call.noisy)
              /\ call.executed.returns = "result"

-----------------------------------------------------------------------------
(* Claims about the compiled depth and about the input the decode phase      *)
(* scores against                                                            *)

\* C21: in every path that records it (the synchronous pure trials of the
\* three schemes and the asynchronous submit phase) the value appended to
\* depths["Transpile"] is the depth of the compiled circuit, not the depth
\* of the circuit before compilation.
C21_TranspileDepthIsCompiled ==
    \A i \in 1 .. Len(exp.depths["Transpile"]) :
        exp.depths["Transpile"][i].v = "tcircuit"

\* the original vector of size n under distribution d, as the frqi paths
\* prepare it
C22_Original(n, d) == prepareInput(n, <<0, pi \div 2>>, d).input_vector

\* C22: in the decode phase every result is decoded with the problem size of
\* the ticket it belongs to and scored against the same original vector that
\* was encoded when that ticket was submitted, whichever tickets were
\* retrieved and whichever distribution was used at submission.
C22_DecodeUsesTicketInput ==
    IbmqRecord =>
        \A i \in 1 .. Len(exp.data_points) :
            LET e == exp.data_points[i]
            IN  /\ e.v.n = ticket[e.t].n
                /\ C22_Original(e.v.n, e.v.dist)
                      = C22_Original(ticket[e.t].n, ticket[e.t].dist)

====
